---------------------------- MODULE Spec2Model ----------------------------
(***************************************************************************)
(* A model of the Cloud Vision OCR add-on (src/main.py): CloudVision.main, *)
(* validate, json_ocr, list_blobs, set_doc_text and vision_method.         *)
(*                                                                         *)
(* Python strings are sequences of one-character strings, Python dicts are *)
(* functions whose DOMAIN is the set of keys present, Python lists are     *)
(* sequences.  Coordinates are counted in tenths, so the float 1 is Unit.  *)
(***************************************************************************)
EXTENDS Integers, Sequences, FiniteSets, TLC

VARIABLES
    documents,   \* the selected documents, in selection order: [title, page_count]
    selected,    \* get_document_count() is not None
    org_id,      \* self.org_id is truthy
    pc,          \* where the run stands
    cur,         \* index in documents of the document being processed (0: none yet)
    charges,     \* the amounts charge_credits was accepted for, in order
    bucket,      \* the storage bucket: blob name -> [payload, job]
    duration,    \* how long the submitted OCR operation takes (0: none submitted)
    gcs_destination_uri, \* what json_ocr returned for the current document
    listing,     \* what bucket.list_blobs(prefix) returned, in the store's order
    blobs_list,  \* what list_blobs returned
    i,           \* set_doc_text: number of blobs wholly parsed
    pages,       \* set_doc_text: the pages list under construction
    patches,     \* the client.patch calls made, in order: [doc, pages]
    message,     \* the last set_message text ("" when none)
    exc,         \* the exception that ended the run ("" when none)
    store,       \* how the blob store orders a listing: "by_name" or "any"
    trace        \* history: the externally visible steps of the run, in order

vars == <<documents, selected, org_id, pc, cur, charges, bucket, duration,
          gcs_destination_uri, listing, blobs_list, i, pages, patches,
          message, exc, store, trace>>

----------------------------------------------------------------------------
(* Strings *)

\* The characters the model uses, in ASCII order.
Alphabet ==
    << "-", ".", "/", "0", "1", "2", "3", "4", "5", "6", "7", "8", "9", ":",
       "_", "a", "b", "c", "d", "e", "f", "g", "h", "i", "j", "k", "l", "m",
       "n", "o", "p", "q", "r", "s", "t", "u", "v", "w", "x", "y", "z" >>

Ord(c) == CHOOSE k \in 1..Len(Alphabet) : Alphabet[k] = c

Min(a, b) == IF a <= b THEN a ELSE b

\* s[:n]
Take(s, n) == SubSeq(s, 1, Min(n, Len(s)))

\* s[n:]
Drop(s, n) == SubSeq(s, n + 1, Len(s))

\* s.startswith(p)
StartsWith(s, p) == Len(p) <= Len(s) /\ SubSeq(s, 1, Len(p)) = p

\* s.endswith(p)
EndsWith(s, p) == Len(p) <= Len(s) /\ SubSeq(s, Len(s) - Len(p) + 1, Len(s)) = p

\* a < b for Python strings (code point order): a is a proper prefix of b,
\* or is the smaller at the first place where they differ
StrLess(a, b) ==
    LET n == Min(Len(a), Len(b))
        differ == { k \in 1..n : a[k] # b[k] }
    IN  IF differ = {} THEN Len(a) < Len(b)
        ELSE LET k == CHOOSE d \in differ : \A e \in differ : d <= e
             IN  Ord(a[k]) < Ord(b[k])

\* the places from..Len(s) at which sep occurs in s
Occurrences(s, sep, from) ==
    { k \in from..(Len(s) - Len(sep) + 1) : SubSeq(s, k, k + Len(sep) - 1) = sep }

\* s.split(sep), for the part of s that starts at place from
RECURSIVE SplitFrom(_, _, _)
SplitFrom(s, sep, from) ==
    LET found == Occurrences(s, sep, from)
    IN  IF found = {} THEN << SubSeq(s, from, Len(s)) >>
        ELSE LET k == CHOOSE d \in found : \A e \in found : d <= e
             IN  << SubSeq(s, from, k - 1) >> \o SplitFrom(s, sep, k + Len(sep))

Split(s, sep) == SplitFrom(s, sep, 1)

\* sep.join(parts)
RECURSIVE Join(_, _)
Join(parts, sep) ==
    IF parts = <<>> THEN <<>>
    ELSE IF Len(parts) = 1 THEN parts[1]
    ELSE parts[1] \o sep \o Join(Tail(parts), sep)

\* os.path.join(path, *parts) on POSIX
RECURSIVE PathJoin(_, _)
PathJoin(path, parts) ==
    IF parts = <<>> THEN path
    ELSE LET b == Head(parts)
             joined == IF StartsWith(b, <<"/">>) THEN b
                       ELSE IF path = <<>> \/ EndsWith(path, <<"/">>) THEN path \o b
                       ELSE path \o <<"/">> \o b
         IN  PathJoin(joined, Tail(parts))

\* str(n) for n >= 0
RECURSIVE Dec(_)
Dec(n) ==
    LET digit == Alphabet[Ord("0") + (n % 10)]
    IN  IF n < 10 THEN <<digit>> ELSE Append(Dec(n \div 10), digit)

----------------------------------------------------------------------------
(* Dicts *)

\* k in d
Has(d, k) == k \in DOMAIN d

\* d.get(k, dflt)
Get(d, k, dflt) == IF Has(d, k) THEN d[k] ELSE dflt

\* {}
EmptyDict == <<>>

----------------------------------------------------------------------------
(* Constants of the program *)

\* self.bucket_name
bucket_name ==
    << "d", "o", "c", "u", "m", "e", "n", "t", "c", "l", "o", "u", "d", "_",
       "c", "l", "o", "u", "d", "v", "i", "s", "i", "o", "n", "_", "o", "c", "r" >>

\* input_dir as main passes it; os.path.basename(os.path.normpath("out")) is "out"
input_dir == << "o", "u", "t" >>

remote_subdir == input_dir

\* operation.result(timeout=360)
Timeout == 360

\* filename[:60]
PrefixLen == 60

\* the float 1 of 0 <= x <= 1, in tenths
Unit == 10

----------------------------------------------------------------------------
(* json_ocr: the paths it builds *)

\* pdf_name = f"{document.title}.pdf"
pdf_name(document) == document.title \o << ".", "p", "d", "f" >>

\* rel_remote_path = os.path.join(remote_subdir, filename)
rel_remote_path(filename) == PathJoin(remote_subdir, << filename >>)

\* os.path.join("gs://", bucket_name, remote_subdir, "json_output", filename[:60] + "_")
DestinationUri(filename) ==
    PathJoin(<< "g", "s", ":", "/", "/" >>,
             << bucket_name,
                remote_subdir,
                << "j", "s", "o", "n", "_", "o", "u", "t", "p", "u", "t" >>,
                Take(filename, PrefixLen) \o << "_" >> >>)

----------------------------------------------------------------------------
(* list_blobs *)

\* prefix = "/".join(gcs_destination_uri.split("//")[1].split("/")[1:])
ListPrefix(uri) == Join(Tail(Split(Split(uri, << "/", "/" >>)[2], << "/" >>)), << "/" >>)

\* the names a bucket.list_blobs(prefix=prefix) call matches
Matching(bkt, prefix) == { name \in DOMAIN bkt : StartsWith(name, prefix) }

\* every order a store may list the names of S in
Orders(S) ==
    { s \in [1..Cardinality(S) -> S] : \A a, b \in DOMAIN s : a # b => s[a] # s[b] }

\* sorted so far, with blob put behind every blob whose name is no longer
InsertByLen(sorted, blob) ==
    LET behind == { k \in DOMAIN sorted : Len(sorted[k].name) <= Len(blob.name) }
        at == Cardinality(behind)
    IN  SubSeq(sorted, 1, at) \o << blob >> \o SubSeq(sorted, at + 1, Len(sorted))

\* sorted(blobs_list, key=lambda blob: len(blob.name)): Python's sort is stable,
\* so blobs of equal name length keep the order the listing gave them
RECURSIVE SortedByLen(_)
SortedByLen(blobs) ==
    IF blobs = <<>> THEN <<>>
    ELSE InsertByLen(SortedByLen(SubSeq(blobs, 1, Len(blobs) - 1)), blobs[Len(blobs)])

\* a blob object of the listing: its name and what download_as_string returns
Blob(bkt, name) == [name |-> name, payload |-> bkt[name].payload, job |-> bkt[name].job]

----------------------------------------------------------------------------
(* set_doc_text: parsing.  A raised exception is the err field of a result: *)
(* "" for none, else the exception's class.                                 *)

\* normalized_vertices[k].get(c, 0), for the 0-based index k of the source
Coordinate(normalized_vertices, k, c) == Get(normalized_vertices[k + 1], c, 0)

\* InRange with the bounds excluded: 0 < x1 < 1 and so on
InRangeExclusive(x1, x2, y1, y2) ==
    /\ 0 < x1 /\ x1 < Unit
    /\ 0 < x2 /\ x2 < Unit
    /\ 0 < y1 /\ y1 < Unit
    /\ 0 < y2 /\ y2 < Unit

\* 0 <= x1 <= 1 and 0 <= x2 <= 1 and 0 <= y1 <= 1 and 0 <= y2 <= 1
InRange(x1, x2, y1, y2) ==
    /\ 0 <= x1 /\ x1 <= Unit
    /\ 0 <= x2 /\ x2 <= Unit
    /\ 0 <= y1 /\ y1 <= Unit
    /\ 0 <= y2 /\ y2 <= Unit

\* ''.join(symbol["text"] for symbol in symbols_list), all symbols having a text
RECURSIVE JoinSymbols(_)
JoinSymbols(symbols_list) ==
    IF symbols_list = <<>> THEN <<>>
    ELSE Head(symbols_list).text \o JoinSymbols(Tail(symbols_list))

\* the position_info dict of a word
PositionInfo(word) ==
    LET normalized_vertices == word.boundingBox.normalizedVertices
    IN  [ text |-> JoinSymbols(word.symbols),
          x1 |-> Coordinate(normalized_vertices, 0, "x"),
          x2 |-> Coordinate(normalized_vertices, 1, "x"),
          y1 |-> Coordinate(normalized_vertices, 0, "y"),
          y2 |-> Coordinate(normalized_vertices, 2, "y") ]

\* "if 0 <= x1 <= 1 and ...": whether the word's position_info is appended
Checked(info) ==
    [ err |-> "",
      keep |-> InRange(info.x1, info.x2, info.y1, info.y2),
      position_info |-> info ]

\* the body of "for word in paragraph["words"]" for one word:
\* the exception it raises, whether it appends, and what it appends
ParseWord(word) ==
    IF ~Has(word, "boundingBox") THEN [err |-> "KeyError"]
    ELSE IF ~Has(word.boundingBox, "normalizedVertices") THEN [err |-> "KeyError"]
    ELSE IF Len(word.boundingBox.normalizedVertices) < 3 THEN [err |-> "IndexError"]
    ELSE IF ~Has(word, "symbols") THEN [err |-> "KeyError"]
    ELSE IF \E k \in DOMAIN word.symbols : ~Has(word.symbols[k], "text")
         THEN [err |-> "KeyError"]
    ELSE Checked(PositionInfo(word))

\* positions after a word whose round ended as r
Appended(positions, r) ==
    IF r.keep THEN Append(positions, r.position_info) ELSE positions

\* for word in paragraph["words"], appending to positions; r is how the
\* round of the word before words ended
RECURSIVE AfterWord(_, _, _)
AfterWord(r, words, positions) ==
    IF r.err # "" THEN [err |-> r.err, positions |-> positions]
    ELSE IF words = <<>> THEN [err |-> "", positions |-> Appended(positions, r)]
    ELSE AfterWord(ParseWord(Head(words)), Tail(words), Appended(positions, r))

NoWord == [err |-> "", keep |-> FALSE]

ParseWords(words, positions) == AfterWord(NoWord, words, positions)

\* paragraph["words"], or the KeyError
WordsOf(paragraph, positions) ==
    IF Has(paragraph, "words") THEN ParseWords(paragraph.words, positions)
    ELSE [err |-> "KeyError", positions |-> positions]

\* for paragraph in block["paragraphs"]; r is how the paragraph before ended
RECURSIVE AfterParagraph(_, _)
AfterParagraph(r, paragraphs) ==
    IF r.err # "" \/ paragraphs = <<>> THEN r
    ELSE AfterParagraph(WordsOf(Head(paragraphs), r.positions), Tail(paragraphs))

ParseParagraphs(paragraphs, positions) ==
    AfterParagraph([err |-> "", positions |-> positions], paragraphs)

\* block["paragraphs"], or the KeyError
ParagraphsOf(block, positions) ==
    IF Has(block, "paragraphs") THEN ParseParagraphs(block.paragraphs, positions)
    ELSE [err |-> "KeyError", positions |-> positions]

\* for block in ann_page["blocks"]; r is how the block before ended
RECURSIVE AfterBlock(_, _)
AfterBlock(r, blocks) ==
    IF r.err # "" \/ blocks = <<>> THEN r
    ELSE AfterBlock(ParagraphsOf(Head(blocks), r.positions), Tail(blocks))

ParseBlocks(blocks, positions) ==
    AfterBlock([err |-> "", positions |-> positions], blocks)

\* ann_page["blocks"], or the KeyError
BlocksOf(ann_page, positions) ==
    IF Has(ann_page, "blocks") THEN ParseBlocks(ann_page.blocks, positions)
    ELSE [err |-> "KeyError", positions |-> positions]

\* for ann_page in annotation["pages"]; r is how the page before ended
RECURSIVE AfterAnnPage(_, _)
AfterAnnPage(r, ann_pages) ==
    IF r.err # "" \/ ann_pages = <<>> THEN r
    ELSE AfterAnnPage(BlocksOf(Head(ann_pages), r.positions), Tail(ann_pages))

ParseAnnPages(ann_pages, positions) ==
    AfterAnnPage([err |-> "", positions |-> positions], ann_pages)

\* "if annotation:" for annotation = text_response.get("fullTextAnnotation"):
\* None and the empty dict are falsy
Truthy(text_response) ==
    Has(text_response, "fullTextAnnotation")
        /\ DOMAIN text_response.fullTextAnnotation # {}

\* the page_number the page of a response unit is given: the index of the
\* blob in blobs_list (ix), whatever the number of pages emitted so far (n)
PageNumber(ix, n) == ix

\* the page dict of the else branch
EmptyPage(number) ==
    [page_number |-> number, text |-> <<>>, ocr |-> "googlecv", positions |-> <<>>]

\* the page dict of the if branch, the walk over annotation["pages"] having ended as r
FullPage(annotation, number, r) ==
    IF r.err # "" THEN [err |-> r.err]
    ELSE [ err |-> "",
           page |-> [ page_number |-> number,
                      text |-> annotation.text,
                      ocr |-> "googlecv",
                      positions |-> r.positions ] ]

\* the if branch of the try block
ParseAnnotation(annotation, number) ==
    IF ~Has(annotation, "text") THEN [err |-> "KeyError"]
    ELSE IF ~Has(annotation, "pages") THEN [err |-> "KeyError"]
    ELSE FullPage(annotation, number, ParseAnnPages(annotation.pages, <<>>))

\* the body of the try block for one text_response of blob ix, n pages
\* having been emitted: the exception raised, and the page appended
ParseResponse(text_response, ix, n) ==
    IF Truthy(text_response)
    THEN ParseAnnotation(text_response.fullTextAnnotation, PageNumber(ix, n))
    ELSE [err |-> "", page |-> EmptyPage(PageNumber(ix, n))]

\* for text_response in full_text_response, appending to pgs; r is how the
\* round of the response before full_text_response ended
RECURSIVE AfterResponse(_, _, _, _)
AfterResponse(r, full_text_response, ix, pgs) ==
    IF r.err # "" THEN [err |-> r.err, pages |-> pgs]
    ELSE IF full_text_response = <<>> THEN [err |-> "", pages |-> Append(pgs, r.page)]
    ELSE AfterResponse(ParseResponse(Head(full_text_response), ix, Len(pgs) + 1),
                       Tail(full_text_response), ix, Append(pgs, r.page))

\* ParseResponses passing over the responses without an annotation
ParseResponsesSkipEmpty(full_text_response, ix, pgs) ==
    LET annotated == SelectSeq(full_text_response, Truthy)
    IN  IF annotated = <<>> THEN [err |-> "", pages |-> pgs]
        ELSE AfterResponse(ParseResponse(Head(annotated), ix, Len(pgs)),
                           Tail(annotated), ix, pgs)

ParseResponses(full_text_response, ix, pgs) ==
    IF full_text_response = <<>> THEN [err |-> "", pages |-> pgs]
    ELSE AfterResponse(ParseResponse(Head(full_text_response), ix, Len(pgs)),
                       Tail(full_text_response), ix, pgs)

\* json.loads(blob.download_as_string()): a payload is [valid |-> FALSE] when
\* its bytes are not JSON, else [valid |-> TRUE, value |-> the decoded object]
JsonLoads(payload) ==
    IF payload.valid THEN [err |-> "", value |-> payload.value]
    ELSE [err |-> "JSONDecodeError"]

\* Handled with an except clause that goes on to the next blob
HandledSkipping(r) ==
    [end |-> IF r.err \in { "", "KeyError", "ValueError" } THEN "next" ELSE "raise",
     err |-> IF r.err \in { "", "KeyError", "ValueError" } THEN "" ELSE r.err,
     message |-> "", pages |-> r.pages]

\* how a round of the loop over blobs_list ends when the loop over its
\* responses ended as r: the except clauses catch KeyError and ValueError
\* and call sys.exit(1); any other exception leaves set_doc_text
Handled(r) ==
    CASE r.err = "" ->
           [end |-> "next", err |-> "", message |-> "", pages |-> r.pages]
      [] r.err = "KeyError" ->
           [end |-> "exit", err |-> "SystemExit", message |-> "Key error", pages |-> r.pages]
      [] r.err = "ValueError" ->
           [end |-> "exit", err |-> "SystemExit", message |-> "Value error", pages |-> r.pages]
      [] OTHER ->
           [end |-> "raise", err |-> r.err, message |-> "", pages |-> r.pages]

\* response["responses"] and the loop over it
ParseLoaded(response, ix, pgs) ==
    IF response.err # ""
    THEN [end |-> "raise", err |-> response.err, message |-> "", pages |-> pgs]
    ELSE IF ~Has(response.value, "responses")
    THEN [end |-> "raise", err |-> "KeyError", message |-> "", pages |-> pgs]
    ELSE Handled(ParseResponses(response.value.responses, ix, pgs))

\* one round of "for i, blob in enumerate(blobs_list)": how it ends
\* ("next": the loop goes on, "exit": sys.exit(1), "raise": an exception
\* leaves set_doc_text), the message set, and the pages list after it
ParseBlob(blob, ix, pgs) == ParseLoaded(JsonLoads(blob.payload), ix, pgs)

------------------------------------------------------------------------
(* Bounds *)

\* the documents of a selection
MaxDocs == 2

\* the result files one OCR operation writes
MaxShards == 2

\* the blobs handed to set_doc_text when it is checked on its own
MaxBlobs == 2

\* the words of an annotation when set_doc_text is checked on its own
MaxWords == 2

\* the names under a prefix when list_blobs is checked on its own
MaxNames == 3

----------------------------------------------------------------------------
(* The collaborators: documents, the OCR provider, the blob store *)

\* n times the character c
Repeat(c, n) == [k \in 1..n |-> c]

\* titles: a short one, and two whose file names agree on their first
\* PrefixLen characters
Titles ==
    { << "a" >>,
      Repeat("a", PrefixLen) \o << "x" >>,
      Repeat("a", PrefixLen) \o << "y" >> }

\* document.page_count
PageCount(title) == IF Len(title) = 1 THEN 1 ELSE 2

Document(title) == [title |-> title, page_count |-> PageCount(title)]

\* the selections get_documents() may yield
Selections == UNION { [1..n -> { Document(t) : t \in Titles }] : n \in 0..MaxDocs }

\* a symbol per character of text
Symbols(text) == [k \in DOMAIN text |-> [text |-> << text[k] >>]]

\* a vertex dict; xo and yo are <<>> for a missing field, else << value >>
Vertex(xo, yo) ==
    CASE xo = <<>> /\ yo = <<>> -> EmptyDict
      [] xo = <<>> /\ yo # <<>> -> [y |-> yo[1]]
      [] xo # <<>> /\ yo = <<>> -> [x |-> xo[1]]
      [] OTHER -> [x |-> xo[1], y |-> yo[1]]

\* a word as the provider writes it: four vertices clockwise from top-left
Word(text, x1o, x2o, y1o, y2o) ==
    [ boundingBox |->
        [ normalizedVertices |->
            << Vertex(x1o, y1o), Vertex(x2o, y1o), Vertex(x2o, y2o), Vertex(x1o, y2o) >> ],
      symbols |-> Symbols(text) ]

\* an annotation holding the given words in one paragraph of one block of one page
Annotation(text, words) ==
    [ text |-> text,
      pages |-> << [blocks |-> << [paragraphs |-> << [words |-> words] >>] >>] >> ]

\* a result file holding the given response units
Shard(responses) == [valid |-> TRUE, value |-> [responses |-> responses]]

\* bytes that are not JSON
NotJson == [valid |-> FALSE]

WordIn == Word(<< "h", "i" >>, << 1 >>, << 3 >>, << 0 >>, << 2 >>)

WordOut == Word(<< "n", "o" >>, << 1 >>, << Unit + 1 >>, << 0 >>, << 2 >>)

UnitGood == [fullTextAnnotation |-> Annotation(<< "h", "i" >>, << WordIn, WordOut >>)]

UnitNoAnnotation == [context |-> << "p" >>]

\* a word without its symbol list
WordNoSymbols == [boundingBox |-> WordIn.boundingBox]

UnitKeyError == [fullTextAnnotation |-> Annotation(<< "h", "i" >>, << WordIn, WordNoSymbols >>)]

\* the payloads the provider writes in a run of main
ProviderPayloads == { Shard(<< UnitGood >>), Shard(<< UnitKeyError >>), NotJson }

\* how long an OCR operation may take
Durations == { Timeout - 1, Timeout + 1 }

\* the name of the k-th result file under a destination prefix
OutputName(prefix, k) ==
    prefix \o << "o", "u", "t", "p", "u", "t", "-" >> \o Dec(k)
           \o << "-", "t", "o", "-" >> \o Dec(k)
           \o << ".", "j", "s", "o", "n" >>

\* bkt with the blob called name written anew by job: last write wins
Put(bkt, name, payload, job) ==
    [ k \in DOMAIN bkt \cup { name } |->
        IF k = name THEN [payload |-> payload, job |-> job] ELSE bkt[k] ]

\* bkt after job has written shards[1..upto] as result files under prefix
RECURSIVE WriteShards(_, _, _, _, _)
WriteShards(bkt, prefix, shards, upto, job) ==
    IF upto = 0 THEN bkt
    ELSE Put(WriteShards(bkt, prefix, shards, upto - 1, job),
             OutputName(prefix, upto), shards[upto], job)

\* blob.upload_from_filename: last write wins
Upload(bkt, name, job) == Put(bkt, name, NotJson, job)

\* the names of S in the order the store lists them
RECURSIVE ByName(_)
ByName(S) ==
    IF S = {} THEN <<>>
    ELSE LET first == CHOOSE a \in S : \A b \in S : a = b \/ StrLess(a, b)
         IN  << first >> \o ByName(S \ { first })

\* the orders in which the store may list the names of S
StoreOrders(S) == IF store = "by_name" THEN { ByName(S) } ELSE Orders(S)

Event(ev, doc, n) == [ev |-> ev, doc |-> doc, n |-> n]

----------------------------------------------------------------------------
(* CloudVision.main and what it calls *)

filename == pdf_name(documents[cur])

\* a result file left in the bucket by an earlier run of the add-on, for a
\* document whose destination prefix extends that of the title "a"
StaleTitle == << "a", ".", "p", "d", "f", "_", "b" >>

StaleBuckets ==
    { WriteShards(<<>>, ListPrefix(DestinationUri(pdf_name(Document(StaleTitle)))),
                  << Shard(<< UnitNoAnnotation >>) >>, 1, 0) }

Init ==
    /\ selected \in BOOLEAN
    /\ org_id \in BOOLEAN
    /\ documents \in (IF selected THEN Selections ELSE { <<>> })
    /\ bucket \in { <<>> } \cup StaleBuckets
    /\ store = "by_name"
    /\ pc = "main"
    /\ cur = 0
    /\ charges = <<>>
    /\ duration = 0
    /\ gcs_destination_uri = <<>>
    /\ listing = <<>>
    /\ blobs_list = <<>>
    /\ i = 0
    /\ pages = <<>>
    /\ patches = <<>>
    /\ message = ""
    /\ exc = ""
    /\ trace = <<>>

\* num_pages of validate
RECURSIVE NumPages(_)
NumPages(docs) == IF docs = <<>> THEN 0 ELSE Head(docs).page_count + NumPages(Tail(docs))

\* Validate returning True also when charge_credits raised ValueError
ValidateUncharged ==
    /\ pc = "main"
    /\ selected
    /\ org_id
    /\ \E accepted \in BOOLEAN :
          IF accepted
          THEN /\ charges' = Append(charges, NumPages(documents))
               /\ trace' = Append(trace, Event("charge", 0, NumPages(documents)))
          ELSE UNCHANGED <<charges, trace>>
    /\ pc' = "loop"
    /\ UNCHANGED <<documents, selected, org_id, cur, bucket, duration,
                   gcs_destination_uri, listing, blobs_list, i, pages, patches,
                   message, exc, store>>

\* main up to the for loop: os.mkdir and validate().  charge_credits either
\* accepts the charge or raises ValueError.
Validate ==
    /\ pc = "main"
    /\ IF ~selected
       THEN /\ message' = "no documents were selected"
            /\ pc' = "returned"
            /\ UNCHANGED <<charges, trace>>
       ELSE IF ~org_id
       THEN /\ message' = "No organization to charge."
            /\ pc' = "returned"
            /\ UNCHANGED <<charges, trace>>
       ELSE \E accepted \in BOOLEAN :
              IF accepted
              THEN /\ charges' = Append(charges, NumPages(documents))
                   /\ trace' = Append(trace, Event("charge", 0, NumPages(documents)))
                   /\ pc' = "loop"
                   /\ UNCHANGED message
              ELSE /\ pc' = "returned"
                   /\ UNCHANGED <<charges, trace, message>>
    /\ UNCHANGED <<documents, selected, org_id, cur, bucket, duration,
                   gcs_destination_uri, listing, blobs_list, i, pages, patches,
                   exc, store>>

\* for document in self.get_documents(): the next document's PDF is written to ./out
NextDocument ==
    /\ pc = "loop"
    /\ cur < Len(documents)
    /\ cur' = cur + 1
    /\ pc' = "upload"
    /\ UNCHANGED <<documents, selected, org_id, charges, bucket, duration,
                   gcs_destination_uri, listing, blobs_list, i, pages, patches,
                   message, exc, store, trace>>

\* the for loop of main is exhausted
Finish ==
    /\ pc = "loop"
    /\ cur = Len(documents)
    /\ pc' = "done"
    /\ UNCHANGED <<documents, selected, org_id, cur, charges, bucket, duration,
                   gcs_destination_uri, listing, blobs_list, i, pages, patches,
                   message, exc, store, trace>>

\* json_ocr: blob.upload_from_filename
UploadPdf ==
    /\ pc = "upload"
    /\ bucket' = Upload(bucket, rel_remote_path(filename), cur)
    /\ trace' = Append(trace, Event("upload", cur, 0))
    /\ pc' = "submit"
    /\ UNCHANGED <<documents, selected, org_id, cur, charges, duration,
                   gcs_destination_uri, listing, blobs_list, i, pages, patches,
                   message, exc, store>>

\* json_ocr: async_batch_annotate_files
Submit ==
    /\ pc = "submit"
    /\ \E d \in Durations : duration' = d
    /\ trace' = Append(trace, Event("submit", cur, 0))
    /\ pc' = "await"
    /\ UNCHANGED <<documents, selected, org_id, cur, charges, bucket,
                   gcs_destination_uri, listing, blobs_list, i, pages, patches,
                   message, exc, store>>

\* json_ocr: operation.result(timeout=360) returns, the provider having written
\* its result files under the destination prefix; json_ocr returns the uri
Complete ==
    /\ pc = "await"
    /\ duration <= Timeout
    /\ \E n \in 0..MaxShards :
         \E payloads \in [1..n -> ProviderPayloads] :
            bucket' = WriteShards(bucket, ListPrefix(DestinationUri(filename)),
                                  payloads, n, cur)
    /\ gcs_destination_uri' = DestinationUri(filename)
    /\ trace' = Append(trace, Event("complete", cur, 0))
    /\ pc' = "list_blobs"
    /\ UNCHANGED <<documents, selected, org_id, cur, charges, duration,
                   listing, blobs_list, i, pages, patches, message, exc, store>>

\* TimedOut with the timeout caught inside json_ocr, which returns the uri
TimedOutSwallowed ==
    /\ pc = "await"
    /\ duration > Timeout
    /\ gcs_destination_uri' = DestinationUri(filename)
    /\ trace' = Append(trace, Event("timeout", cur, 0))
    /\ pc' = "list_blobs"
    /\ UNCHANGED <<documents, selected, org_id, cur, charges, bucket, duration,
                   listing, blobs_list, i, pages, patches, message, exc, store>>

\* json_ocr: operation.result(timeout=360) raises, and nothing catches it
TimedOut ==
    /\ pc = "await"
    /\ duration > Timeout
    /\ exc' = "TimeoutError"
    /\ trace' = Append(trace, Event("timeout", cur, 0))
    /\ pc' = "raised"
    /\ UNCHANGED <<documents, selected, org_id, cur, charges, bucket, duration,
                   gcs_destination_uri, listing, blobs_list, i, pages, patches,
                   message, store>>

\* list_blobs(gcs_destination_uri), and the entry of set_doc_text
ListBlobs ==
    /\ pc = "list_blobs"
    /\ \E names \in StoreOrders(Matching(bucket, ListPrefix(gcs_destination_uri))) :
         /\ listing' = [k \in DOMAIN names |-> Blob(bucket, names[k])]
         /\ blobs_list' = SortedByLen(listing')
         /\ trace' = Append(trace, Event("list", cur, Len(names)))
    /\ i' = 0
    /\ pages' = <<>>
    /\ pc' = "set_doc_text"
    /\ UNCHANGED <<documents, selected, org_id, cur, charges, bucket, duration,
                   gcs_destination_uri, patches, message, exc, store>>

\* set_doc_text: one round of the loop over blobs_list
ParseNext ==
    /\ pc = "set_doc_text"
    /\ i < Len(blobs_list)
    /\ LET r == ParseBlob(blobs_list[i + 1], i, pages)
       IN  /\ pages' = r.pages
           /\ trace' = Append(trace, Event("parse", cur, i))
           /\ IF r.end = "next"
              THEN /\ i' = i + 1
                   /\ UNCHANGED <<pc, exc, message>>
              ELSE /\ pc' = IF r.end = "exit" THEN "exited" ELSE "raised"
                   /\ exc' = r.err
                   /\ message' = IF r.end = "exit" THEN r.message ELSE message
                   /\ UNCHANGED i
    /\ UNCHANGED <<documents, selected, org_id, cur, charges, bucket, duration,
                   gcs_destination_uri, listing, blobs_list, patches, store>>

\* Patch inside the loop over blobs_list: after every blob, not after the last
PatchEarly ==
    /\ pc = "set_doc_text"
    /\ i > 0 \/ blobs_list = <<>>
    /\ patches' = Append(patches, [doc |-> cur, pages |-> pages])
    /\ trace' = Append(trace, Event("patch", cur, Len(pages)))
    /\ pc' = "loop"
    /\ UNCHANGED <<documents, selected, org_id, cur, charges, bucket, duration,
                   gcs_destination_uri, listing, blobs_list, i, pages, message,
                   exc, store>>

\* set_doc_text: self.client.patch(f"documents/{document.id}/", json={"pages": pages})
Patch ==
    /\ pc = "set_doc_text"
    /\ i = Len(blobs_list)
    /\ patches' = Append(patches, [doc |-> cur, pages |-> pages])
    /\ trace' = Append(trace, Event("patch", cur, Len(pages)))
    /\ pc' = "loop"
    /\ UNCHANGED <<documents, selected, org_id, cur, charges, bucket, duration,
                   gcs_destination_uri, listing, blobs_list, i, pages, message,
                   exc, store>>

Next ==
    \/ Validate
    \/ NextDocument
    \/ Finish
    \/ UploadPdf
    \/ Submit
    \/ Complete
    \/ TimedOut
    \/ ListBlobs
    \/ ParseNext
    \/ Patch

Spec == Init /\ [][Next]_vars

----------------------------------------------------------------------------
(* list_blobs on its own: any names under the prefix, listed in any order *)

\* "p_"
ShortPrefix == << "p", "_" >>

\* the shard numbers of the names under the prefix
ShardNumbers == { 1, 2, 3, 10, 11 }

\* p_1_, p_2_, p_10_, ...
ShortName(k) == ShortPrefix \o Dec(k) \o << "_" >>

\* a blob that is not under the prefix
OtherName == << "q", "_", "1", "_" >>

BucketOf(names) ==
    [ name \in names \cup { OtherName } |->
        [payload |-> Shard(<< UnitNoAnnotation >>), job |-> 1] ]

InitList ==
    /\ selected = TRUE
    /\ org_id = TRUE
    /\ documents = << Document(<< "a" >>) >>
    /\ \E numbers \in SUBSET ShardNumbers :
          /\ Cardinality(numbers) <= MaxNames
          /\ bucket = BucketOf({ ShortName(k) : k \in numbers })
    /\ store = "any"
    /\ pc = "list_blobs"
    /\ cur = 1
    /\ charges = << 1 >>
    /\ duration = Timeout - 1
    /\ gcs_destination_uri = PathJoin(<< "g", "s", ":", "/", "/" >>, << bucket_name, ShortPrefix >>)
    /\ listing = <<>>
    /\ blobs_list = <<>>
    /\ i = 0
    /\ pages = <<>>
    /\ patches = <<>>
    /\ message = ""
    /\ exc = ""
    /\ trace = <<>>

NextList == ListBlobs

SpecList == InitList /\ [][NextList]_vars

----------------------------------------------------------------------------
(* set_doc_text on its own: any blobs_list *)

Pt(x, y) == [x |-> x, y |-> y]

\* the four corners of a word, clockwise from top-left
BaseVertices == << Pt(1, 0), Pt(3, 0), Pt(3, 2), Pt(1, 2) >>

\* vertices with field c of the vertex of 0-based index k set to v
Moved(vertices, k, c, v) == [vertices EXCEPT ![k + 1] = [@ EXCEPT ![c] = v]]

\* the vertex lists of the words handed to set_doc_text: the base, a
\* coordinate the code reads out of [0,1], coordinates it does not read out
\* of [0,1], the corners of the page, no coordinate fields at all, and three
\* vertices only
VertexCases ==
    { BaseVertices }
    \cup { Moved(BaseVertices, 0, "x", v) : v \in { -1, Unit + 1 } }
    \cup { Moved(BaseVertices, 1, "x", v) : v \in { -1, Unit + 1 } }
    \cup { Moved(BaseVertices, 0, "y", v) : v \in { -1, Unit + 1 } }
    \cup { Moved(BaseVertices, 2, "y", v) : v \in { -1, Unit + 1 } }
    \cup { Moved(Moved(BaseVertices, 1, "y", Unit + 1), 2, "x", -1),
           Moved(Moved(BaseVertices, 3, "x", Unit + 1), 3, "y", -1),
           << Pt(0, 0), Pt(Unit, 0), Pt(Unit, Unit), Pt(0, Unit) >>,
           << EmptyDict, EmptyDict, EmptyDict, EmptyDict >>,
           SubSeq(BaseVertices, 1, 3) }

WordOf(vertices) ==
    [ boundingBox |-> [normalizedVertices |-> vertices],
      symbols |-> Symbols(<< "h", "i" >>) ]

Words == { WordOf(vertices) : vertices \in VertexCases }

\* the container of the given level around its children
Wrap(level, children) ==
    CASE level = 1 -> [words |-> children]
      [] level = 2 -> [paragraphs |-> children]
      [] level = 3 -> [blocks |-> children]

\* the list of level 0 (words), 1 (paragraphs), 2 (blocks) or 3 (pages) that
\* holds words[lo..hi]; breaks[k] is the highest level at which a new
\* container starts between words[k] and words[k + 1] (0: none)
RECURSIVE Grouped(_, _, _, _, _)
Grouped(words, breaks, lo, hi, level) ==
    IF level = 0 THEN SubSeq(words, lo, hi)
    ELSE LET starts == { lo } \cup { k + 1 : k \in { c \in lo..(hi - 1) : breaks[c] >= level } }
             StartOf(g) == CHOOSE st \in starts : Cardinality({ t \in starts : t < st }) = g - 1
             EndOf(g) == IF g = Cardinality(starts) THEN hi ELSE StartOf(g + 1) - 1
         IN  [ g \in 1..Cardinality(starts) |->
                 Wrap(level, Grouped(words, breaks, StartOf(g), EndOf(g), level - 1)) ]

\* the annotation of the given words, grouped by the given breaks into
\* paragraphs, blocks and pages, no container being empty
Grouping(words, breaks) ==
    [text |-> << "h", "i" >>, pages |-> Grouped(words, breaks, 1, Len(words), 3)]

\* an annotation whose only word is the given one
With(word) == [fullTextAnnotation |-> Annotation(<< "h", "i" >>, << word >>)]

\* a response unit whose words are all out of range
UnitAllOut == [fullTextAnnotation |-> Annotation(<< "n", "o" >>, << WordOut, WordOut >>)]

\* the payloads without a flaw of structure
SoundPayloads ==
    { Shard(<<>>),
      Shard(<< UnitNoAnnotation >>),
      Shard(<< [fullTextAnnotation |-> EmptyDict] >>),
      Shard(<< UnitGood >>),
      Shard(<< UnitAllOut >>),
      Shard(<< UnitGood, UnitNoAnnotation >>),
      Shard(<< [fullTextAnnotation |-> [text |-> << "h", "i" >>, pages |-> << [blocks |-> <<>>] >>]] >>) }

\* the payloads with a flaw of structure
FlawedPayloads ==
    { NotJson,
      [valid |-> TRUE, value |-> [error |-> << "e" >>]],
      Shard(<< [fullTextAnnotation |-> [pages |-> <<>>]] >>),
      Shard(<< [fullTextAnnotation |-> [text |-> << "h", "i" >>]] >>),
      Shard(<< [fullTextAnnotation |-> [text |-> << "h", "i" >>, pages |-> << [property |-> 1] >>]] >>),
      Shard(<< [fullTextAnnotation |->
                  [text |-> << "h", "i" >>,
                   pages |-> << [blocks |-> << [blockType |-> 1] >>] >>]] >>),
      Shard(<< [fullTextAnnotation |->
                  [text |-> << "h", "i" >>,
                   pages |-> << [blocks |-> << [paragraphs |-> << [confidence |-> 1] >>] >>] >>]] >>),
      Shard(<< With([symbols |-> Symbols(<< "h", "i" >>)]) >>),
      Shard(<< With([boundingBox |-> [vertices |-> BaseVertices],
                     symbols |-> Symbols(<< "h", "i" >>)]) >>),
      Shard(<< With(WordNoSymbols) >>),
      Shard(<< With([boundingBox |-> WordIn.boundingBox,
                     symbols |-> << [text |-> << "h" >>], [confidence |-> 1] >>]) >>),
      Shard(<< With(WordOf(SubSeq(BaseVertices, 1, 2))) >>),
      Shard(<< UnitNoAnnotation, UnitKeyError >>) }

\* a blobs_list holding the given payloads, named as the provider names them
BlobsOf(payloads) ==
    [ k \in DOMAIN payloads |->
        [ name |-> OutputName(ShortPrefix, k), payload |-> payloads[k], job |-> 1 ] ]

\* the blobs_list arguments: at most MaxBlobs payloads of those above, or one
\* payload holding one annotation of at most MaxWords words
IsBlobsList(list) ==
    \/ \E n \in 0..MaxBlobs :
         \E payloads \in [1..n -> SoundPayloads \cup FlawedPayloads] :
           list = BlobsOf(payloads)
    \/ \E n \in 0..MaxWords :
         \E words \in [1..n -> Words], breaks \in [1..(n - 1) -> 0..3] :
           list = BlobsOf(<< Shard(<< [fullTextAnnotation |-> Grouping(words, breaks)] >>) >>)

InitSetDocText ==
    /\ selected = TRUE
    /\ org_id = TRUE
    /\ documents = << Document(<< "a" >>) >>
    /\ bucket = <<>>
    /\ store = "any"
    /\ pc = "set_doc_text"
    /\ cur = 1
    /\ charges = << 1 >>
    /\ duration = Timeout - 1
    /\ gcs_destination_uri = PathJoin(<< "g", "s", ":", "/", "/" >>, << bucket_name, ShortPrefix >>)
    /\ IsBlobsList(blobs_list)
    /\ listing = blobs_list
    /\ i = 0
    /\ pages = <<>>
    /\ patches = <<>>
    /\ message = ""
    /\ exc = ""
    /\ trace = <<>>

NextSetDocText == ParseNext \/ Patch

SpecSetDocText == InitSetDocText /\ [][NextSetDocText]_vars

----------------------------------------------------------------------------
(* Properties *)

Last(seq) == seq[Len(seq)]

\* the response units of the blobs, in blobs_list order
RECURSIVE Units(_)
Units(blobs) ==
    IF blobs = <<>> THEN <<>>
    ELSE Units(SubSeq(blobs, 1, Len(blobs) - 1)) \o Last(blobs).payload.value.responses

\* the document's page list has just been patched
Patched == pc = "loop" /\ patches # <<>> /\ Last(patches).doc = cur

\* C1: the page list set_doc_text patches carries page_number k-1 at its
\* k-th place, however many response units each shard holds
C1_PageNumbersAreRunningIndex ==
    \A p \in DOMAIN patches :
        \A k \in DOMAIN patches[p].pages : patches[p].pages[k].page_number = k - 1

\* key a comes before key b: shorter first, and the lexicographic order
\* among keys of one length
LengthThenLex(a, b) == Len(a) < Len(b) \/ (Len(a) = Len(b) /\ StrLess(a, b))

\* C2: list_blobs returns the listed shards by key length ascending and, among
\* keys of one length, in lexicographic order, whatever order the store
\* listed them in
C2_LengthThenLexOrder ==
    pc = "set_doc_text" =>
        /\ { blobs_list[k].name : k \in DOMAIN blobs_list }
             = { listing[k].name : k \in DOMAIN listing }
        /\ Len(blobs_list) = Len(listing)
        /\ \A k \in 1..(Len(blobs_list) - 1) :
              LengthThenLex(blobs_list[k].name, blobs_list[k + 1].name)

\* C3: when every shard parses, the patched page list has one page per
\* response unit, in order, and a unit without fullTextAnnotation gives a
\* page with text "" and positions []
C3_OnePagePerResponseUnit ==
    Patched =>
        LET persisted == Last(patches).pages
            units == Units(blobs_list)
        IN  /\ Len(persisted) = Len(units)
            /\ \A k \in DOMAIN units :
                  ~("fullTextAnnotation" \in DOMAIN units[k]) =>
                      persisted[k].text = <<>> /\ persisted[k].positions = <<>>

\* C3's case: three units in two shards were patched as pages, one unit
\* without annotation and one whose words were all discarded
C3_Witness ==
    /\ Patched
    /\ Len(blobs_list) = 2
    /\ Units(blobs_list) = << UnitGood, UnitNoAnnotation, UnitAllOut >>
    /\ Len(Last(patches).pages) = 3

\* the lists of a list of lists, one after the other
RECURSIVE Concat(_)
Concat(lists) == IF lists = <<>> THEN <<>> ELSE Head(lists) \o Concat(Tail(lists))

\* the words of an annotation in block, paragraph, word order
WordsInOrder(annotation) ==
    LET OfParagraphs(paragraphs) ==
            Concat([k \in DOMAIN paragraphs |-> paragraphs[k].words])
        OfBlocks(blocks) ==
            Concat([k \in DOMAIN blocks |-> OfParagraphs(blocks[k].paragraphs)])
    IN  Concat([k \in DOMAIN annotation.pages |-> OfBlocks(annotation.pages[k].blocks)])

\* field c of the word's vertex of 0-based index k, a missing field read as 0
Corner(word, k, c) ==
    LET vertex == word.boundingBox.normalizedVertices[k + 1]
    IN  IF c \in DOMAIN vertex THEN vertex[c] ELSE 0

\* x1, y1 from vertex 0, x2 from vertex 1, y2 from vertex 2
Box(word) ==
    [ x1 |-> Corner(word, 0, "x"), x2 |-> Corner(word, 1, "x"),
      y1 |-> Corner(word, 0, "y"), y2 |-> Corner(word, 2, "y") ]

\* all four coordinates of the word lie in [0,1]
AllInUnitInterval(word) ==
    \A c \in { "x1", "x2", "y1", "y2" } : Box(word)[c] \in 0..Unit

\* the position entries of the words in range, in order
ExpectedPositions(annotation) ==
    LET kept == SelectSeq(WordsInOrder(annotation), AllInUnitInterval)
    IN  [ k \in DOMAIN kept |->
            [ text |-> Concat([n \in DOMAIN kept[k].symbols |-> kept[k].symbols[n].text]),
              x1 |-> Box(kept[k]).x1, x2 |-> Box(kept[k]).x2,
              y1 |-> Box(kept[k]).y1, y2 |-> Box(kept[k]).y2 ] ]

\* the unit holds an annotation the code walks
Annotated(unit) ==
    "fullTextAnnotation" \in DOMAIN unit /\ DOMAIN unit.fullTextAnnotation # {}

\* C4: the positions of a patched page are the entries of exactly the words
\* of its response unit whose four coordinates (x1, y1 of vertex 0, x2 of
\* vertex 1, y2 of vertex 2, a missing field read as 0) all lie in [0,1],
\* in block, paragraph, word order
C4_PositionIffInRange ==
    Patched =>
        LET persisted == Last(patches).pages
            units == Units(blobs_list)
        IN  \A k \in DOMAIN units :
                /\ k \in DOMAIN persisted
                /\ Annotated(units[k]) =>
                      persisted[k].positions = ExpectedPositions(units[k].fullTextAnnotation)

\* C4's case: a page was patched for an annotation of two words in two
\* blocks, the first out of range and dropped, the second kept
C4_Witness ==
    /\ Patched
    /\ Len(Units(blobs_list)) = 1
    /\ Annotated(Units(blobs_list)[1])
    /\ LET annotation == Units(blobs_list)[1].fullTextAnnotation
           words == WordsInOrder(annotation)
       IN  /\ Len(annotation.pages) = 1
           /\ Len(annotation.pages[1].blocks) = 2
           /\ Len(words) = 2
           /\ ~AllInUnitInterval(words[1])
           /\ AllInUnitInterval(words[2])
           /\ Len(Last(patches).pages[1].positions) = 1

\* the steps of the run that concern document d, in order
StepsOf(d) == LET Concerns(e) == e.doc = d IN SelectSeq(trace, Concerns)

\* the number of steps ev of the run that concern document d
Count(ev, d) == Cardinality({ k \in DOMAIN trace : trace[k].ev = ev /\ trace[k].doc = d })

\* C5: when the OCR operation of a document takes longer than the wait of 360,
\* the run ends with the timeout error: the operation was submitted once, no
\* shards are listed or parsed and no page list is patched for the document
C5_TimeoutIsTerminal ==
    duration > Timeout =>
        /\ pc \in { "await", "raised" }
        /\ pc = "raised" => exc = "TimeoutError" /\ Last(trace) = Event("timeout", cur, 0)
        /\ Count("submit", cur) = 1
        /\ Count("complete", cur) = 0
        /\ Count("list", cur) = 0
        /\ Count("parse", cur) = 0
        /\ Count("patch", cur) = 0
        /\ \A p \in DOMAIN patches : patches[p].doc # cur

\* C5's case: the second document's operation timed out after the first
\* document was patched
C5_Witness ==
    /\ pc = "raised"
    /\ exc = "TimeoutError"
    /\ duration > Timeout
    /\ cur = 2
    /\ Len(patches) = 1

\* a flaw of structure in a word, a paragraph, a block, a page, a unit, a shard
FlawedWord(word) ==
    \/ ~("boundingBox" \in DOMAIN word)
    \/ ~("normalizedVertices" \in DOMAIN word.boundingBox)
    \/ Len(word.boundingBox.normalizedVertices) < 3
    \/ ~("symbols" \in DOMAIN word)
    \/ \E k \in DOMAIN word.symbols : ~("text" \in DOMAIN word.symbols[k])

FlawedParagraph(paragraph) ==
    \/ ~("words" \in DOMAIN paragraph)
    \/ \E k \in DOMAIN paragraph.words : FlawedWord(paragraph.words[k])

FlawedBlock(block) ==
    \/ ~("paragraphs" \in DOMAIN block)
    \/ \E k \in DOMAIN block.paragraphs : FlawedParagraph(block.paragraphs[k])

FlawedAnnPage(ann_page) ==
    \/ ~("blocks" \in DOMAIN ann_page)
    \/ \E k \in DOMAIN ann_page.blocks : FlawedBlock(ann_page.blocks[k])

\* an empty fullTextAnnotation object counts as no annotation, not as a flaw
FlawedUnit(unit) ==
    /\ Annotated(unit)
    /\ \/ ~("text" \in DOMAIN unit.fullTextAnnotation)
       \/ ~("pages" \in DOMAIN unit.fullTextAnnotation)
       \/ \E k \in DOMAIN unit.fullTextAnnotation.pages :
             FlawedAnnPage(unit.fullTextAnnotation.pages[k])

FlawedShard(payload) ==
    \/ ~payload.valid
    \/ ~("responses" \in DOMAIN payload.value)
    \/ \E k \in DOMAIN payload.value.responses : FlawedUnit(payload.value.responses[k])

\* the places of blobs_list that hold a flawed shard
FlawedPlaces == { k \in DOMAIN blobs_list : FlawedShard(blobs_list[k].payload) }

\* the run never gets past place k of blobs_list, parses no shard after it
\* and patches no page list
AbortsAt(k) ==
    /\ pc \in { "set_doc_text", "exited", "raised" }
    /\ patches = <<>>
    /\ i < k
    /\ \A e \in DOMAIN trace : trace[e].ev = "parse" => trace[e].n < k

\* C6, as amended: when a shard of blobs_list is not JSON or lacks a required
\* key, text and pages being required of a fullTextAnnotation that is not
\* empty, the run never gets past the first such shard, parses no shard after
\* it and patches no page list, wherever in the order the shard stands
C6_FlawedShardAbortsRun == \A k \in FlawedPlaces : AbortsAt(k)

\* a unit whose fullTextAnnotation, empty or not, lacks a required key
LackingUnit(unit) ==
    \/ FlawedUnit(unit)
    \/ /\ "fullTextAnnotation" \in DOMAIN unit
       /\ { "text", "pages" } \ DOMAIN unit.fullTextAnnotation # {}

\* the places of blobs_list that hold a shard that is not JSON or lacks a key
LackingPlaces ==
    { k \in DOMAIN blobs_list :
        \/ FlawedShard(blobs_list[k].payload)
        \/ \E n \in DOMAIN blobs_list[k].payload.value.responses :
              LackingUnit(blobs_list[k].payload.value.responses[n]) }

\* C6, as stated: when a shard of blobs_list is not JSON or lacks one of
\* responses, text, pages, blocks, paragraphs, words, boundingBox,
\* normalizedVertices, symbols, a symbol's text or a third vertex, the run
\* aborts at that shard and patches no page list
C6_LackingShardAbortsRun == \A k \in LackingPlaces : AbortsAt(k)

\* C6's case: the second shard is flawed, the first gave its page, and the
\* run has ended without a patch
C6_Witness ==
    /\ FlawedPlaces = { 2 }
    /\ pc \in { "exited", "raised" }
    /\ i = 1
    /\ Len(pages) = 1
    /\ patches = <<>>

\* C7: a run whose shard listing is empty does not end as a successful run
\* does: no patch with an empty page list is written for the document
C7_EmptyListingIsNotPatched ==
    \A d \in DOMAIN documents :
        Count("list", d) > 0 /\ StepsOf(d)[4] = Event("list", d, 0)
            => Count("patch", d) = 0

\* C8: the shards listed for a document's run were all written by that run's
\* own OCR operation
C8_ListingIsIsolated ==
    pc = "set_doc_text" => \A k \in DOMAIN blobs_list : blobs_list[k].job = cur

\* the step that may come right before step e of a document's run
Follows(e, before) ==
    CASE e.ev = "submit" -> before.ev = "upload"
      [] e.ev = "complete" -> before.ev = "submit"
      [] e.ev = "timeout" -> before.ev = "submit"
      [] e.ev = "list" -> before.ev = "complete"
      [] e.ev = "parse" ->
            IF e.n = 0 THEN before.ev = "list" /\ before.n > 0
            ELSE before.ev = "parse" /\ before.n = e.n - 1
      [] e.ev = "patch" ->
            \/ before.ev = "list" /\ before.n = 0
            \/ before.ev = "parse"
      [] OTHER -> FALSE

\* C9: the steps of a document's run come in the order upload, submit,
\* completion, listing, one parse per listed shard, patch; the patch comes
\* after the completion and after every listed shard was parsed, and once
C9_StagesInOrder ==
    \A d \in DOMAIN documents :
        LET steps == StepsOf(d)
        IN  /\ \A k \in DOMAIN steps :
                  IF k = 1 THEN steps[k].ev = "upload" ELSE Follows(steps[k], steps[k - 1])
            /\ Count("patch", d) <= 1
            /\ Count("patch", d) = 1 =>
                  /\ Count("complete", d) = 1
                  /\ Count("parse", d) = steps[4].n
                  /\ Last(steps).ev = "patch"
            /\ Cardinality({ p \in DOMAIN patches : patches[p].doc = d }) = Count("patch", d)

\* C9's case: a document with two listed shards was patched
C9_Witness ==
    /\ Patched
    /\ Len(StepsOf(cur)) = 7
    /\ StepsOf(cur)[4] = Event("list", cur, 2)
    /\ StepsOf(cur)[7].ev = "patch"

\* the sum of page_count over the selected documents
TotalPageCount ==
    LET Total[k \in 0..Len(documents)] ==
            IF k = 0 THEN 0 ELSE Total[k - 1] + documents[k].page_count
    IN  Total[Len(documents)]

\* C10: without a selection, without an organization, or when the charge is
\* refused, nothing is uploaded, submitted or patched; else the total page
\* count is charged once, before the first upload, and the documents are
\* processed one at a time in selection order, so that when the run fails on
\* a document the documents before it are patched and those after untouched
C10_ValidateGatesProcessing ==
    /\ ~selected \/ ~org_id \/ pc = "returned" =>
          /\ trace = <<>>
          /\ charges = <<>>
          /\ patches = <<>>
          /\ pc \in { "main", "returned" }
    /\ trace # <<>> =>
          /\ trace[1] = Event("charge", 0, TotalPageCount)
          /\ charges = << TotalPageCount >>
          /\ \A k \in 2..Len(trace) :
                /\ trace[k].ev # "charge"
                /\ trace[k].doc = cur \/ trace[k].doc < cur
                /\ IF k = 2 THEN trace[k] = Event("upload", 1, 0)
                   ELSE \/ trace[k].doc = trace[k - 1].doc
                        \/ /\ trace[k].doc = trace[k - 1].doc + 1
                           /\ trace[k - 1].ev = "patch"
                           /\ trace[k].ev = "upload"
    /\ pc \in { "raised", "exited" } =>
          /\ \A d \in 1..(cur - 1) : Count("patch", d) = 1
          /\ Count("patch", cur) = 0
          /\ \A d \in (cur + 1)..Len(documents) :
                /\ StepsOf(d) = <<>>
                /\ \A name \in DOMAIN bucket : bucket[name].job # d

\* C10's case: the charge was accepted, the first document was patched and
\* the run failed on the second
C10_Witness ==
    /\ pc = "exited"
    /\ cur = 2
    /\ charges = << TotalPageCount >>
    /\ Count("patch", 1) = 1
    /\ Count("upload", 2) = 1

============================================================================
